---- MODULE Spec2Model ----
(***************************************************************************)
(* Correlation engine of the kube-bind portal: the binding-requests page   *)
(* (BindingRequestsComponent) with its correlation cache                   *)
(* bindingTargetNamespaces, the resolve pass parseBindingTargetNamespaces, *)
(* the artifact decoding it applies to a fetched secret, the matcher       *)
(* getLinkedClusterBinding, and the BindingsService calls it makes.        *)
(*                                                                         *)
(* Strings are modelled as sequences of symbols.  A text is                *)
(*   <<"txt", s1, ..., sn>>      plain text made of the symbols s1..sn     *)
(*   <<"b64">> \o x              btoa(x), the base64 text of string x      *)
(*   <<"json">> \o x             the JSON document {"kubeconfig": x}       *)
(*   <<"json">>                  a JSON document without kubeconfig field  *)
(*   <<"bin">>                   bytes that are no text (atob of a plain   *)
(*                               word that happens to be in the base64     *)
(*                               alphabet)                                 *)
(*   << >>                       the empty string / undefined (falsy)      *)
(* A namespace token is the sequence of its symbols, <<"t1">>.             *)
(***************************************************************************)
EXTENDS Integers, Sequences, FiniteSets, Bags, TLC

(***************************************************************************)
(* Bounds of the model.                                                    *)
(***************************************************************************)
\* external events in one behaviour: the user's actions (a refresh, a create, a
\* delete) and the changes of the backing store (the controller, an artifact
\* rotation).  The callbacks they lead to are not counted.
MaxEvents == 3

\* calls that can be outstanding when the page is reloaded, in the specification
\* of the page that keeps being reloaded
MaxOutstanding == 1

(***************************************************************************)
(* Strings, base64 and JSON.                                               *)
(***************************************************************************)
Empty == << >>

Txt(syms) == <<"txt">> \o syms

B64(x) == <<"b64">> \o x

Json(kubeconfig) == <<"json">> \o kubeconfig

Whitespace == {" ", "\n", "\t"}

Truthy(x) == x # Empty

\* atob: [ok |-> FALSE] stands for the InvalidCharacterError it throws.
\* Whitespace is stripped before decoding, every other character outside the
\* alphabet (the ':' of "namespace:", the braces and quotes of JSON) throws.
Atob(x) ==
  IF x = Empty THEN [ok |-> TRUE, v |-> Empty]
  ELSE IF x[1] = "b64" THEN [ok |-> TRUE, v |-> Tail(x)]
  ELSE IF x[1] = "txt" /\ \A i \in 2..Len(x) : x[i] # "namespace:"
       THEN [ok |-> TRUE,
             v |-> IF \A i \in 2..Len(x) : x[i] \in Whitespace THEN Empty ELSE <<"bin">>]
  ELSE [ok |-> FALSE, v |-> Empty]

\* JSON.parse followed by the read of .kubeconfig: [ok |-> FALSE] stands for the
\* SyntaxError of a text that is no JSON document.
JsonKubeconfig(x) ==
  IF x # Empty /\ x[1] = "json" THEN [ok |-> TRUE, v |-> Tail(x)]
  ELSE [ok |-> FALSE, v |-> Empty]

\* index of the first symbol at or after i that is no whitespace, Len+1 when none
RECURSIVE SkipWs(_, _)
SkipWs(syms, i) ==
  IF i > Len(syms) THEN i
  ELSE IF syms[i] \in Whitespace THEN SkipWs(syms, i + 1)
  ELSE i

\* the run of non-whitespace symbols that starts at i
RECURSIVE Run(_, _)
Run(syms, i) ==
  IF i > Len(syms) \/ syms[i] \in Whitespace THEN << >>
  ELSE <<syms[i]>> \o Run(syms, i + 1)

\* a pattern without the \s*: the token has to follow 'namespace:' at once
RECURSIVE MatchFrom_NoWhitespace(_, _)
MatchFrom_NoWhitespace(syms, i) ==
  IF i > Len(syms) THEN Empty
  ELSE IF syms[i] = "namespace:" /\ i + 1 <= Len(syms) /\ syms[i + 1] \notin Whitespace
       THEN Run(syms, i + 1)
  ELSE MatchFrom_NoWhitespace(syms, i + 1)

\* String.match(/namespace:\s*([^\s\n]+)/): capture group 1 of the leftmost
\* match, Empty when the pattern does not match.
RECURSIVE MatchFrom(_, _)
MatchFrom(syms, i) ==
  IF i > Len(syms) THEN Empty
  ELSE IF syms[i] = "namespace:" /\ SkipWs(syms, i + 1) <= Len(syms)
       THEN Run(syms, SkipWs(syms, i + 1))
  ELSE MatchFrom(syms, i + 1)

\* a capture group that takes one symbol of the token only
NamespaceMatch_OneSymbol(text) ==
  IF text # Empty /\ text[1] = "txt" /\ MatchFrom(Tail(text), 1) # Empty
  THEN <<MatchFrom(Tail(text), 1)[1]>> ELSE Empty

NamespaceMatch(text) ==
  IF text # Empty /\ text[1] = "txt" THEN MatchFrom(Tail(text), 1) ELSE Empty

\* extractNamespaceFromBindingResponse: Empty stands for null.
extractNamespaceFromBindingResponse(content) ==
  LET response == JsonKubeconfig(content) IN
  IF ~response.ok THEN Empty
  ELSE IF ~Truthy(response.v) THEN Empty
  ELSE LET kubeconfigYaml == Atob(response.v) IN
       IF ~kubeconfigYaml.ok THEN Empty
       ELSE NamespaceMatch(kubeconfigYaml.v)

(***************************************************************************)
(* Data of the backing store and of the component.                         *)
(***************************************************************************)
\* metadata.namespace and metadata.name of the requests of the model; the
\* namespace "" stands for an absent metadata.namespace
ReqIds == { [ns |-> "", name |-> "a"], [ns |-> "ns1", name |-> "b"] }

\* the order in which the backing store lists requests
ReqOrder == << [ns |-> "", name |-> "a"], [ns |-> "ns1", name |-> "b"] >>

Phases == {"unset", "Pending", "Failed", "Succeeded"}

\* status.kubeconfigSecretRef; present = FALSE stands for an absent reference
NoRef == [present |-> FALSE, name |-> "", key |-> ""]

Ref(name, key) == [present |-> TRUE, name |-> name, key |-> key]

\* the secret a request's reference names: one secret per request
SecretNameOf(id) == IF id.name = "a" THEN "s-a" ELSE "s-b"

RefsOf(id) == { NoRef, Ref(SecretNameOf(id), "") }

\* a secret as getSecret delivers it: found = FALSE is null, hasData = FALSE an
\* absent data map, data the map's entries in insertion order
NullSecret == [found |-> FALSE, hasData |-> FALSE, data |-> << >>]

SecretOf(data) == [found |-> TRUE, hasData |-> TRUE, data |-> data]

\* the kubeconfig text of a binding response for target namespace t
Kubeconfig(t) == Txt(<<"namespace:", " ", t, "\n">>)

\* the binding response the backend writes: base64 of JSON with a base64 kubeconfig
BindingResponse(t) == B64(Json(B64(Kubeconfig(t))))

TargetNamespaces == {"t1", "t2"}

WellFormedSecrets ==
  { SecretOf(<< <<"binding-response", BindingResponse(t)>> >>) : t \in TargetNamespaces }

MalformedSecrets ==
  { \* the response is stored under another key than the one the pass reads
    SecretOf(<< <<"response", BindingResponse("t1")>> >>),
    \* the kubeconfig holds no namespace token
    SecretOf(<< <<"binding-response", B64(Json(B64(Txt(<<"namespace:", "\n">>))))>> >>) }

Secrets == WellFormedSecrets \cup MalformedSecrets \cup {NullSecret}

\* secret.data[key]: Empty stands for undefined
RECURSIVE Lookup(_, _)
Lookup(data, key) ==
  IF data = << >> THEN Empty
  ELSE IF data[1][1] = key THEN data[1][2]
  ELSE Lookup(Tail(data), key)

\* `${namespace}/${binding.metadata.name}` with namespace = metadata.namespace ||
\* 'default'.  Kubernetes names hold no '/', so the pair stands for the string.
RequestNamespace(b) == IF b.ns # "" THEN b.ns ELSE "default"

BindingKey(b) == <<RequestNamespace(b), b.name>>

(***************************************************************************)
(* State.                                                                  *)
(***************************************************************************)
VARIABLES
  \* the component's signals
  bindings,                 \* bindings: the loaded request list
  clusterBindings,          \* clusterBindings: the loaded record list
  loading,                  \* loading
  bindingTargetNamespaces,  \* the correlation cache, binding key -> namespace token
  selectedBinding,          \* selectedBinding: << >> for null, else <<request>>
  showDetailsDialog,        \* showDetailsDialog
  bindingResponseContent,   \* bindingResponseContent: the text the details dialog shows
  detailCalls,              \* getSecret calls of the details dialog that are outstanding
  rendered,                 \* what a page has computed last: a row of its template,
                            \* or the outcome of a download
  serviceMappings,          \* the ServiceMappingsComponent: its signals and the
                            \* loadAllExportRequests calls it has started
  \* calls of the service that are outstanding
  \* (bags: calls complete in any order)
  listCalls,                \* listBindings calls, each the list it will deliver
  recordCalls,              \* listClusterBindings calls, each the list it will deliver
  fetches,                  \* getSecret calls of the resolve passes
  mutations,                \* createBinding / deleteBinding calls, each its result
  \* the backing store
  srvRequests,              \* request id -> [present, phase, ref]
  srvSecrets,               \* (namespace, name) -> the secret stored there
  srvRecords,               \* the records (ClusterBindings), in list order
  \* bookkeeping of the model
  events,                   \* external events so far
  lastPass,                 \* the last resolve pass: the keys cached and the keys
                            \* with a failed callback when it started, and the keys
                            \* it issued a getSecret call for
  outcomes                  \* the getSecret callbacks that have run: the key and the
                            \* namespace token recovered, Empty when none was

vars == <<bindings, clusterBindings, loading, bindingTargetNamespaces, listCalls,
          recordCalls, fetches, mutations, srvRequests, srvSecrets, srvRecords,
          events, lastPass, outcomes, selectedBinding, showDetailsDialog,
          bindingResponseContent, detailCalls, rendered, serviceMappings>>

\* the details dialog and the rendered row
view == <<selectedBinding, showDetailsDialog, bindingResponseContent, detailCalls,
          rendered, serviceMappings>>

client == <<bindings, clusterBindings, loading, bindingTargetNamespaces>>

server == <<srvRequests, srvSecrets, srvRecords>>

\* the request with identity id as the backing store lists it
Request(id, st) == [ns |-> id.ns, name |-> id.name, phase |-> st.phase, ref |-> st.ref]

Absent == [present |-> FALSE, phase |-> "unset", ref |-> NoRef]

Present(phase, ref) == [present |-> TRUE, phase |-> phase, ref |-> ref]

\* the list a successful listBindings call delivers
RECURSIVE ListOf(_, _)
ListOf(order, reqs) ==
  IF order = << >> THEN << >>
  ELSE (IF reqs[order[1]].present THEN <<Request(order[1], reqs[order[1]])>> ELSE << >>)
       \o ListOf(Tail(order), reqs)

\* the records of the model: a ClusterBinding's metadata.namespace and name
Records == { [ns |-> "t1", name |-> "cluster"], [ns |-> "default", name |-> "cluster"] }

(***************************************************************************)
(* BindingsService: what a call delivers to its subscriber.  Every call     *)
(* ends in catchError, so a failed or malformed response is delivered as    *)
(* the fallback value through next.                                         *)
(***************************************************************************)
\* where the secrets of the model live: (namespace, name)
SecretLocs == { <<RequestNamespace(id), SecretNameOf(id)>> : id \in ReqIds }

listBindings == { ListOf(ReqOrder, srvRequests), << >> }

listClusterBindings == { srvRecords, << >> }

getSecret(name, namespace) ==
  { IF <<namespace, name>> \in SecretLocs THEN srvSecrets[<<namespace, name>>]
    ELSE NullSecret,
    NullSecret }

(***************************************************************************)
(* The resolve pass.                                                       *)
(***************************************************************************)
\* a filter that looks at the artifact reference alone
SucceededBinding_AnyPhase(b) == b.ref.present

\* the filter of parseBindingTargetNamespaces
SucceededBinding(b) == b.phase = "Succeeded" /\ b.ref.present

\* a pass that never looks at the cache
AlreadyCached_Never(map, bindingKey) == FALSE

\* a pass that also skips the keys whose resolution has failed before
AlreadyCached_OrFailed(map, bindingKey) ==
  \/ bindingKey \in DOMAIN map
  \/ \E o \in outcomes : o.key = bindingKey /\ o.ns = Empty

\* "Skip if we already have this namespace cached"
AlreadyCached(map, bindingKey) == bindingKey \in DOMAIN map

\* the getSecret call of one candidate with what its callbacks close over
\* a fetch addressed to metadata.namespace as it is, without the 'default'
Fetch_RawNamespace(b) ==
  [ binding |-> b, bindingKey |-> BindingKey(b), secretRef |-> b.ref,
    namespace |-> b.ns, status |-> "issued", secret |-> NullSecret ]

Fetch(b) ==
  [ binding |-> b, bindingKey |-> BindingKey(b), secretRef |-> b.ref,
    namespace |-> RequestNamespace(b), status |-> "issued", secret |-> NullSecret ]

\* the calls a pass over list issues, in list order; the cache does not change
\* while the loop runs, the callbacks run later
RECURSIVE parseBindingTargetNamespaces(_, _)
parseBindingTargetNamespaces(list, map) ==
  IF list = << >> THEN << >>
  ELSE LET binding == Head(list) IN
       (IF SucceededBinding(binding) /\ ~AlreadyCached(map, BindingKey(binding))
        THEN <<Fetch(binding)>> ELSE << >>)
       \o parseBindingTargetNamespaces(Tail(list), map)

\* a map that holds the written entry alone
MapSet_Fresh(map, key, value) == [k \in {key} |-> value]

\* a write to the copy of the map the pass started with
MapSet_FromPassStart(map, key, value) ==
  [k \in (DOMAIN map \cap lastPass.cached) \cup {key} |->
     IF k = key THEN value ELSE map[k]]

\* new Map(map).set(key, value)
MapSet(map, key, value) ==
  [k \in DOMAIN map \cup {key} |-> IF k = key THEN value ELSE map[k]]

\* callbacks that write nothing once the callback of another key has failed
SecretNext_AfterFailure(map, bindingKey, secretRef, secret) ==
  LET decodedContent == Atob(Lookup(secret.data, "binding-response"))
      targetNamespace ==
        IF decodedContent.ok THEN extractNamespaceFromBindingResponse(decodedContent.v)
        ELSE Empty IN
  IF \E o \in outcomes : o.key # bindingKey /\ o.ns = Empty THEN map
  ELSE IF Truthy(targetNamespace) THEN MapSet(map, bindingKey, targetNamespace)
  ELSE map

\* the next callback of a pass's getSecret call: the cache after it
SecretNext(map, bindingKey, secretRef, secret) ==
  IF ~(secret.found /\ secret.hasData) THEN map
  ELSE LET key == IF secretRef.key # "" THEN secretRef.key ELSE "binding-response"
           encodedContent == Lookup(secret.data, key) IN
       IF ~Truthy(encodedContent) THEN map
       ELSE LET decodedContent == Atob(encodedContent) IN
            IF ~decodedContent.ok THEN map
            ELSE LET targetNamespace ==
                       extractNamespaceFromBindingResponse(decodedContent.v) IN
                 IF ~Truthy(targetNamespace) THEN map
                 ELSE MapSet(map, bindingKey, targetNamespace)

\* getLinkedClusterBinding: the first record the matcher finds, << >> for undefined
RECURSIVE Find(_, _)
Find(list, namespace) ==
  IF list = << >> THEN << >>
  ELSE IF Head(list).ns = namespace THEN <<Head(list)>>
  ELSE Find(Tail(list), namespace)

\* a matcher that prefers a record of the request's own namespace
getLinkedClusterBinding_OwnFirst(request) ==
  LET requestNamespace == RequestNamespace(request)
      bindingKey == <<requestNamespace, request.name>>
      own == Find(clusterBindings, requestNamespace) IN
  IF own # << >> THEN own
  ELSE IF bindingKey \in DOMAIN bindingTargetNamespaces
            /\ Len(bindingTargetNamespaces[bindingKey]) = 1
       THEN Find(clusterBindings, bindingTargetNamespaces[bindingKey][1])
  ELSE << >>

\* a matcher without the fallback to the request's own namespace
getLinkedClusterBinding_NoFallback(request) ==
  LET bindingKey == <<RequestNamespace(request), request.name>> IN
  IF bindingKey \in DOMAIN bindingTargetNamespaces
       /\ Len(bindingTargetNamespaces[bindingKey]) = 1
  THEN Find(clusterBindings, bindingTargetNamespaces[bindingKey][1])
  ELSE << >>

\* a matcher that builds its key from metadata.namespace as it is
getLinkedClusterBinding_RawNamespace(request) ==
  LET bindingKey == <<request.ns, request.name>> IN
  IF bindingKey \in DOMAIN bindingTargetNamespaces
  THEN LET targetNamespace == bindingTargetNamespaces[bindingKey] IN
       IF Len(targetNamespace) = 1 THEN Find(clusterBindings, targetNamespace[1])
       ELSE << >>
  ELSE Find(clusterBindings, request.ns)

\* a matcher that tries the request's own namespace when the cached
\* namespace has no record
getLinkedClusterBinding_FallbackOnMiss(request) ==
  LET requestNamespace == RequestNamespace(request)
      bindingKey == <<requestNamespace, request.name>>
      byTarget == IF bindingKey \in DOMAIN bindingTargetNamespaces
                     /\ Len(bindingTargetNamespaces[bindingKey]) = 1
                  THEN Find(clusterBindings, bindingTargetNamespaces[bindingKey][1])
                  ELSE << >> IN
  IF byTarget # << >> THEN byTarget ELSE Find(clusterBindings, requestNamespace)

getLinkedClusterBinding(request) ==
  LET requestNamespace == RequestNamespace(request)
      bindingKey == <<requestNamespace, request.name>> IN
  IF bindingKey \in DOMAIN bindingTargetNamespaces
  THEN LET targetNamespace == bindingTargetNamespaces[bindingKey] IN
       IF Len(targetNamespace) = 1 THEN Find(clusterBindings, targetNamespace[1])
       ELSE << >>
  ELSE Find(clusterBindings, requestNamespace)

(***************************************************************************)
(* Operations of the component.                                            *)
(***************************************************************************)
\* an external event is counted against the bound of the model
Counted == events < MaxEvents /\ events' = events + 1

One(x) == SetToBag({x})

RECURSIVE BagOfSeq(_)
BagOfSeq(seq) == IF seq = << >> THEN EmptyBag ELSE One(Head(seq)) (+) BagOfSeq(Tail(seq))

\* loadBindings up to its subscribe: the call is issued and the backing store
\* answers it with list
LoadBindingsCall(list) ==
  /\ loading' = TRUE
  /\ listCalls' = listCalls (+) One(list)

\* loadBindings, called by ngOnInit and by the page's refresh
LoadBindingsOp ==
  /\ \E list \in listBindings : LoadBindingsCall(list)
  /\ UNCHANGED <<view, bindings, clusterBindings, bindingTargetNamespaces, recordCalls,
                 fetches, mutations, server, lastPass, outcomes>>

LoadBindings == Counted /\ LoadBindingsOp

\* the next callback of loadBindings: the list is stored and the resolve pass runs
\* a failed listBindings call that ends in the error callback of loadBindings:
\* the loading flag is cleared, the displayed list stays
BindingsNext_ErrorCallback(list) ==
  LET issued == parseBindingTargetNamespaces(list, bindingTargetNamespaces)
  IN /\ bindings' = IF list = << >> THEN bindings ELSE list
     /\ loading' = FALSE
     /\ fetches' = fetches (+) BagOfSeq(issued)
     /\ listCalls' = listCalls (-) One(list)
     /\ lastPass' = [ cached |-> DOMAIN bindingTargetNamespaces,
                      failed |-> { o.key : o \in { x \in outcomes : x.ns = Empty } },
                      issued |-> { issued[j].bindingKey : j \in 1..Len(issued) } ]
     /\ UNCHANGED <<view, clusterBindings, bindingTargetNamespaces, recordCalls, mutations,
                    server, events, outcomes>>

BindingsNext(list) ==
  LET issued == parseBindingTargetNamespaces(list, bindingTargetNamespaces)
  IN /\ bindings' = list
     /\ loading' = FALSE
     /\ fetches' = fetches (+) BagOfSeq(issued)
     /\ listCalls' = listCalls (-) One(list)
     /\ lastPass' = [ cached |-> DOMAIN bindingTargetNamespaces,
                      failed |-> { o.key : o \in { x \in outcomes : x.ns = Empty } },
                      issued |-> { issued[j].bindingKey : j \in 1..Len(issued) } ]
     /\ UNCHANGED <<view, clusterBindings, bindingTargetNamespaces, recordCalls, mutations,
                    server, events, outcomes>>

\* what the callback of call f writes for its key, Empty when it writes nothing
Written(f) ==
  LET map == SecretNext(<< >>, f.bindingKey, f.secretRef, f.secret) IN
  IF f.bindingKey \in DOMAIN map THEN map[f.bindingKey] ELSE Empty

\* the backing store answers a getSecret call, or the call fails
SecretServed(f) ==
  /\ f.status = "issued"
  /\ \E secret \in getSecret(f.secretRef.name, f.namespace) :
       fetches' = (fetches (-) One(f))
                    (+) One([f EXCEPT !.status = "served", !.secret = secret])
  /\ UNCHANGED <<view, client, listCalls, recordCalls, mutations, server, events, lastPass,
                 outcomes>>

\* the next callback of a pass's getSecret call
SecretDelivered(f) ==
  /\ f.status = "served"
  /\ bindingTargetNamespaces' =
       SecretNext(bindingTargetNamespaces, f.bindingKey, f.secretRef, f.secret)
  /\ fetches' = fetches (-) One(f)
  /\ outcomes' = outcomes \cup { [key |-> f.bindingKey, ns |-> Written(f)] }
  /\ UNCHANGED <<view, bindings, clusterBindings, loading, listCalls, recordCalls, mutations,
                 server, events, lastPass>>

\* loadClusterBindings up to its subscribe
LoadClusterBindingsOp ==
  /\ \E list \in listClusterBindings : recordCalls' = recordCalls (+) One(list)
  /\ UNCHANGED <<view, client, listCalls, fetches, mutations, server, lastPass, outcomes>>

LoadClusterBindings == Counted /\ LoadClusterBindingsOp

\* the next callback of loadClusterBindings
ClusterBindingsNext(list) ==
  /\ clusterBindings' = list
  /\ recordCalls' = recordCalls (-) One(list)
  /\ UNCHANGED <<view, bindings, loading, bindingTargetNamespaces, listCalls, fetches,
                 mutations, server, events, lastPass, outcomes>>

\* confirmAddCluster up to its subscribe: the dialog holds a non-empty name and
\* namespace, the backing store creates the request unless it exists or the call fails
ConfirmAddCluster(id) ==
  /\ id.ns # ""
  /\ Counted
  /\ \/ /\ ~srvRequests[id].present
        /\ srvRequests' = [srvRequests EXCEPT ![id] = Present("unset", NoRef)]
        /\ mutations' = mutations (+) One(TRUE)
     \/ /\ UNCHANGED srvRequests
        /\ mutations' = mutations (+) One(FALSE)
  /\ UNCHANGED <<view, client, listCalls, recordCalls, fetches, srvSecrets, srvRecords,
                 lastPass, outcomes>>

\* deleteBinding of a listed request, confirmed, up to its subscribe
DeleteBinding(i) ==
  LET id == [ns |-> bindings[i].ns, name |-> bindings[i].name] IN
  /\ Counted
  /\ \/ /\ srvRequests[id].present
        /\ srvRequests' = [srvRequests EXCEPT ![id] = Absent]
        /\ mutations' = mutations (+) One(TRUE)
     \/ /\ UNCHANGED srvRequests
        /\ mutations' = mutations (+) One(FALSE)
  /\ UNCHANGED <<view, client, listCalls, recordCalls, fetches, srvSecrets, srvRecords,
                 lastPass, outcomes>>

\* the next callback of createBinding and of deleteBinding: success reloads
MutationNext(success) ==
  /\ mutations' = mutations (-) One(success)
  /\ IF success
     THEN \E list \in listBindings : LoadBindingsCall(list)
     ELSE UNCHANGED <<loading, listCalls>>
  /\ UNCHANGED <<view, bindings, clusterBindings, bindingTargetNamespaces, recordCalls,
                 fetches, server, events, lastPass, outcomes>>

(***************************************************************************)
(* The backing store changes under the component: the external controller  *)
(* moves a request through its phases, writes and rotates its secret, and  *)
(* creates the record.                                                     *)
(***************************************************************************)
ControllerUpdate(id, phase, ref) ==
  /\ Counted
  /\ srvRequests[id].present
  /\ Present(phase, ref) # srvRequests[id]
  /\ srvRequests' = [srvRequests EXCEPT ![id] = Present(phase, ref)]
  /\ UNCHANGED <<view, client, listCalls, recordCalls, fetches, mutations, srvSecrets,
                 srvRecords, lastPass, outcomes>>

SecretChange(loc, secret) ==
  /\ Counted
  /\ secret # srvSecrets[loc]
  /\ srvSecrets' = [srvSecrets EXCEPT ![loc] = secret]
  /\ UNCHANGED <<view, client, listCalls, recordCalls, fetches, mutations, srvRequests,
                 srvRecords, lastPass, outcomes>>

RecordCreated(r) ==
  /\ Counted
  /\ \A j \in 1..Len(srvRecords) : srvRecords[j] # r
  /\ srvRecords' = Append(srvRecords, r)
  /\ UNCHANGED <<view, client, listCalls, recordCalls, fetches, mutations, srvRequests,
                 srvSecrets, lastPass, outcomes>>

(***************************************************************************)
(* The specification.  The component starts with empty signals; the backing *)
(* store is in one of its start states.                                     *)
(***************************************************************************)
StartRequests ==
  { [id \in ReqIds |-> IF id.name = "a" THEN sa ELSE sb] :
      sa \in { Present("Pending", NoRef), Present("Succeeded", Ref("s-a", "")) },
      sb \in { Absent, Present("Succeeded", Ref("s-b", "")) } }

\* the ServiceMappingsComponent after construction; calls and published are
\* bookkeeping: the loadAllExportRequests calls in the order they started,
\* each with its closure, and the lists set to exportRequests, in order
NewServiceMappings ==
  [ clusterBindings |-> << >>, exportRequests |-> << >>,
    loadingExportRequests |-> FALSE, calls |-> << >>, published |-> << >> ]

InitComponent ==
  /\ bindings = << >>
  /\ clusterBindings = << >>
  /\ loading = TRUE
  /\ bindingTargetNamespaces = << >>
  /\ listCalls = EmptyBag
  /\ recordCalls = EmptyBag
  /\ fetches = EmptyBag
  /\ mutations = EmptyBag
  /\ events = 0
  /\ lastPass = [cached |-> {}, failed |-> {}, issued |-> {}]
  /\ outcomes = {}
  /\ selectedBinding = << >>
  /\ showDetailsDialog = FALSE
  /\ bindingResponseContent = Empty
  /\ detailCalls = EmptyBag
  /\ rendered = [op |-> "none"]
  /\ serviceMappings = NewServiceMappings

Init ==
  /\ InitComponent
  /\ srvRequests \in StartRequests
  /\ srvSecrets = [loc \in SecretLocs |->
                     SecretOf(<< <<"binding-response", BindingResponse("t1")>> >>)]
  /\ srvRecords = << [ns |-> "t1", name |-> "cluster"] >>

Next ==
  \/ LoadBindings
  \/ \E list \in BagToSet(listCalls) : BindingsNext(list)
  \/ \E f \in BagToSet(fetches) : SecretServed(f)
  \/ \E f \in BagToSet(fetches) : SecretDelivered(f)
  \/ LoadClusterBindings
  \/ \E list \in BagToSet(recordCalls) : ClusterBindingsNext(list)
  \/ \E id \in ReqIds : ConfirmAddCluster(id)
  \/ \E i \in 1..Len(bindings) : DeleteBinding(i)
  \/ \E success \in BagToSet(mutations) : MutationNext(success)
  \/ \E id \in ReqIds : \E phase \in Phases : \E ref \in RefsOf(id) :
       ControllerUpdate(id, phase, ref)
  \/ \E loc \in SecretLocs : \E secret \in Secrets : SecretChange(loc, secret)
  \/ \E r \in Records : RecordCreated(r)

Spec == Init /\ [][Next]_vars

(***************************************************************************)
(* The page that keeps being reloaded: request default/a stays Succeeded   *)
(* with a well-formed artifact, the backing store does not change, and the *)
(* lists are loaded again and again.  Calls may fail; every callback runs  *)
(* in the end, and a call that is made again and again succeeds in the end.*)
(***************************************************************************)
RequestA == [ns |-> "", name |-> "a"]

RecordA == [ns |-> "t1", name |-> "cluster"]

LiveInit ==
  /\ InitComponent
  /\ srvRequests \in
       { r \in StartRequests :
           /\ r[RequestA] = Present("Succeeded", Ref("s-a", ""))
           /\ r[[ns |-> "ns1", name |-> "b"]].present }
  /\ srvSecrets \in
       { x \in [SecretLocs -> WellFormedSecrets \cup {NullSecret}] :
           /\ x[<<"default", "s-a">>]
                = SecretOf(<< <<"binding-response", BindingResponse("t1")>> >>)
           /\ x[<<"ns1", "s-b">>]
                \in { SecretOf(<< <<"binding-response", BindingResponse("t2")>> >>),
                      NullSecret } }
  /\ srvRecords = <<[ns |-> "default", name |-> "cluster"], RecordA>>

\* the calls that are outstanding
Outstanding ==
  BagCardinality(listCalls) + BagCardinality(fetches) + BagCardinality(recordCalls)

\* loadBindings is called again
Poll ==
  /\ Outstanding < MaxOutstanding
  /\ LoadBindingsOp
  /\ UNCHANGED events

\* loadBindings is called again and its list call succeeds
PollOk == Poll /\ listCalls' = listCalls (+) One(ListOf(ReqOrder, srvRequests))

\* loadClusterBindings is called again
PollRecords ==
  /\ Outstanding < MaxOutstanding
  /\ LoadClusterBindingsOp
  /\ UNCHANGED events

\* the callback of a successful list call runs
PassOk == \E list \in BagToSet(listCalls) : list # << >> /\ BindingsNext(list)

\* the getSecret call for a request's key is answered with the stored secret
ServedOk(b) ==
  \E f \in BagToSet(fetches) :
    /\ f.bindingKey = BindingKey(b)
    /\ SecretServed(f)
    /\ \E secret \in getSecret(f.secretRef.name, f.namespace) \ {NullSecret} :
         fetches' = (fetches (-) One(f))
                      (+) One([f EXCEPT !.status = "served", !.secret = secret])

\* the callback of a getSecret call for a request's key that has been answered
\* with a secret runs
DeliveredOk(b) ==
  \E f \in BagToSet(fetches) :
    f.bindingKey = BindingKey(b) /\ f.secret # NullSecret /\ SecretDelivered(f)

LiveNext ==
  \/ Poll
  \/ \E list \in BagToSet(listCalls) : BindingsNext(list)
  \/ \E f \in BagToSet(fetches) : SecretServed(f)
  \/ \E f \in BagToSet(fetches) : SecretDelivered(f)
  \/ PollRecords
  \/ \E list \in BagToSet(recordCalls) : ClusterBindingsNext(list)

Fairness ==
  /\ SF_vars(PollOk)
  /\ WF_vars(\E list \in BagToSet(listCalls) : BindingsNext(list))
  /\ WF_vars(PassOk)
  /\ WF_vars(\E f \in BagToSet(fetches) : SecretServed(f))
  /\ WF_vars(\E f \in BagToSet(fetches) : SecretDelivered(f))
  /\ SF_vars(ServedOk(RequestA))
  /\ WF_vars(DeliveredOk(RequestA))
  /\ WF_vars(\E list \in BagToSet(recordCalls) : ClusterBindingsNext(list))

LiveSpec == LiveInit /\ [][LiveNext]_vars /\ Fairness


(***************************************************************************)
(* What a step does, read off the outstanding calls.                       *)
(***************************************************************************)
\* the getSecret calls the step issues
Issued ==
  { f \in BagToSet(fetches') :
      f.status = "issued" /\ CopiesIn(f, fetches') > CopiesIn(f, fetches) }

\* the getSecret calls whose callback the step runs
Completed ==
  { f \in BagToSet(fetches) :
      f.status = "served" /\ CopiesIn(f, fetches') < CopiesIn(f, fetches) }

\* the step is the callback of loadBindings, which runs a resolve pass
PassRuns ==
  \E list \in BagToSet(listCalls) : CopiesIn(list, listCalls') < CopiesIn(list, listCalls)

\* the namespace token a secret of the backing store encodes, Empty when it is
\* not a well-formed binding response
Embedded(secret) ==
  IF \E t \in TargetNamespaces :
       secret = SecretOf(<< <<"binding-response", BindingResponse(t)>> >>)
  THEN << CHOOSE t \in TargetNamespaces :
            secret = SecretOf(<< <<"binding-response", BindingResponse(t)>> >>) >>
  ELSE Empty

\* the keys with a callback that recovered no namespace
FailedKeys == { o.key : o \in { x \in outcomes : x.ns = Empty } }

\* the keys with a callback that recovered a namespace
RecoveredKeys == { o.key : o \in { x \in outcomes : x.ns # Empty } }

(***************************************************************************)
(* The correlation cache.                                                  *)
(***************************************************************************)
\* C1: write-once cache: once the cache holds key k with value v, every later
\* state holds the same value v for k, whatever passes, artifact changes and
\* fetch completions follow.
WriteOnce ==
  [][\A k \in DOMAIN bindingTargetNamespaces :
       /\ k \in DOMAIN bindingTargetNamespaces'
       /\ bindingTargetNamespaces'[k] = bindingTargetNamespaces[k]]_vars

\* C2: the cache is append-only: the set of keys after every step is a superset
\* of the set of keys before it, also when the key's request is deleted or is
\* no longer listed.
AppendOnly ==
  [][DOMAIN bindingTargetNamespaces \subseteq DOMAIN bindingTargetNamespaces']_vars

\* a key is cached whose request the backing store no longer holds and the
\* loaded list no longer shows
AppendOnlyWitness ==
  \E id \in ReqIds :
    /\ BindingKey(id) \in DOMAIN bindingTargetNamespaces
    /\ ~srvRequests[id].present
    /\ \A j \in 1..Len(bindings) : BindingKey(bindings[j]) # BindingKey(id)
    /\ mutations = EmptyBag /\ listCalls = EmptyBag

\* C3: never stale-to-wrong: for every loaded request whose key is cached, the
\* cached namespace is the namespace the request's current artifact encodes.
NeverStaleToWrong ==
  \A j \in 1..Len(bindings) :
    LET b == bindings[j]
        id == [ns |-> b.ns, name |-> b.name]
        now == srvRequests[id] IN
    (/\ BindingKey(b) \in DOMAIN bindingTargetNamespaces
     /\ now.present /\ now.ref.present)
    => bindingTargetNamespaces[BindingKey(b)]
         = Embedded(srvSecrets[<<RequestNamespace(b), now.ref.name>>])

(***************************************************************************)
(* The resolve pass.                                                       *)
(***************************************************************************)
\* C4: a resolve pass issues no getSecret call for a request whose phase is not
\* Succeeded, whatever the cache holds and whether or not the request carries an
\* artifact reference.
NonSucceededNeverFetched ==
  [][/\ \A f \in Issued : f.binding.phase = "Succeeded"
     /\ PassRuns =>
          \A j \in 1..Len(bindings') :
            bindings'[j].phase # "Succeeded"
            => \A f \in Issued : f.bindingKey # BindingKey(bindings'[j])]_vars

\* a pass has run over a request that is not Succeeded, carries an artifact
\* reference and is not cached, and has issued no call for it
NonSucceededWitness ==
  \E j \in 1..Len(bindings) :
    /\ bindings[j].phase # "Succeeded"
    /\ bindings[j].ref.present
    /\ BindingKey(bindings[j]) \notin DOMAIN bindingTargetNamespaces
    /\ BindingKey(bindings[j]) \notin lastPass.issued
    /\ \A f \in BagToSet(fetches) : f.bindingKey # BindingKey(bindings[j])

\* C5: a resolve pass issues no getSecret call for a request whose key is in the
\* cache when the pass starts.
CachedNeverFetched ==
  [][\A f \in Issued : f.bindingKey \notin DOMAIN bindingTargetNamespaces]_vars

\* a pass has run over a Succeeded request whose key was cached when it started,
\* and has issued no call for it
CachedWitness ==
  \E j \in 1..Len(bindings) :
    /\ bindings[j].phase = "Succeeded" /\ bindings[j].ref.present
    /\ BindingKey(bindings[j]) \in lastPass.cached
    /\ BindingKey(bindings[j]) \notin lastPass.issued
    /\ fetches = EmptyBag

\* C6: at no time are two getSecret calls for the same key outstanding: a pass
\* skips a key whose call of an earlier pass has not completed.
OneFetchInFlight ==
  \A f \in BagToSet(fetches) :
    /\ CopiesIn(f, fetches) = 1
    /\ \A g \in BagToSet(fetches) : g.bindingKey = f.bindingKey => g = f

\* C7: isolated failure: a callback that is handed a well-formed artifact writes
\* its key whatever has happened to the other candidates, and a pass issues a call
\* for every candidate of its list.
IsolatedFailure ==
  [][/\ \A f \in Completed :
          f.secret \in WellFormedSecrets
          => /\ f.bindingKey \in DOMAIN bindingTargetNamespaces'
             /\ bindingTargetNamespaces'[f.bindingKey] = Embedded(f.secret)
     /\ PassRuns =>
          \A j \in 1..Len(bindings') :
            (/\ bindings'[j].phase = "Succeeded" /\ bindings'[j].ref.present
             /\ BindingKey(bindings'[j]) \notin DOMAIN bindingTargetNamespaces)
            => \E f \in Issued : f.bindingKey = BindingKey(bindings'[j])]_vars

\* one pass has run over two candidates: the resolution of one has failed, the
\* other is in the cache
IsolatedFailureWitness ==
  /\ events = 1
  /\ \E k1 \in FailedKeys : \E k2 \in DOMAIN bindingTargetNamespaces :
       k1 # k2 /\ k1 \notin DOMAIN bindingTargetNamespaces

\* C8: order independence of concurrent writes: in whatever order the callbacks
\* run, the cache holds exactly the keys for which a callback recovered a
\* namespace, each with a namespace recovered for it; no callback loses the
\* entry of another.
OrderIndependent ==
  /\ DOMAIN bindingTargetNamespaces = RecoveredKeys
  /\ \A k \in DOMAIN bindingTargetNamespaces :
       [key |-> k, ns |-> bindingTargetNamespaces[k]] \in outcomes

\* the calls of one pass for two keys have both completed and both keys are cached
OrderIndependentWitness ==
  /\ events = 1
  /\ fetches = EmptyBag
  /\ Cardinality(RecoveredKeys) = 2
  /\ Cardinality(DOMAIN bindingTargetNamespaces) = 2

RecordLoaded == \E j \in 1..Len(clusterBindings) : clusterBindings[j] = RecordA

\* C10: self-healing: while request default/a stays Succeeded with a well-formed
\* artifact, passes keep running and fetches succeed in the end, its key is in
\* the cache from some point on, and from then on the matcher returns the
\* request's record whenever the record is in the loaded record list.
SelfHealing ==
  <>[](/\ BindingKey(RequestA) \in DOMAIN bindingTargetNamespaces
       /\ RecordLoaded => getLinkedClusterBinding(RequestA) = <<RecordA>>)

\* the resolution of default/a has failed before, the key is cached now, the
\* record is loaded and the matcher returns it
SelfHealingWitness ==
  /\ BindingKey(RequestA) \in FailedKeys
  /\ BindingKey(RequestA) \in DOMAIN bindingTargetNamespaces
  /\ RecordLoaded
  /\ getLinkedClusterBinding(RequestA) = <<RecordA>>

(***************************************************************************)
(* The matcher on its own: the page has loaded its lists and renders a row *)
(* of the request table with the cache and the record list it holds.       *)
(***************************************************************************)
\* longest record list of the specification of the matcher
MaxRecordList == 2

\* the records of the specification of the matcher
MatchRecords ==
  { [ns |-> ns, name |-> name] : ns \in {"t1", "default", "ns1"}, name \in {"rec1", "rec2"} }

\* the sequences over set of length n at most
RECURSIVE SeqsUpTo(_, _)
SeqsUpTo(set, n) ==
  IF n = 0 THEN { << >> }
  ELSE LET shorter == SeqsUpTo(set, n - 1) IN
       shorter \cup { Append(q, x) : q \in { y \in shorter : Len(y) = n - 1 }, x \in set }

\* the caches of the specification of the matcher
MatchCaches ==
  UNION { [keys -> { <<"t1">>, <<"ns1">> }] :
            keys \in SUBSET { BindingKey(id) : id \in ReqIds } }

\* both requests are Succeeded and listed, no call is outstanding
Loaded ==
  /\ srvRequests = [id \in ReqIds |-> Present("Succeeded", Ref(SecretNameOf(id), ""))]
  /\ srvSecrets = [loc \in SecretLocs |->
                     SecretOf(<< <<"binding-response", BindingResponse("t1")>> >>)]
  /\ bindings = ListOf(ReqOrder, srvRequests)
  /\ loading = FALSE
  /\ listCalls = EmptyBag
  /\ recordCalls = EmptyBag
  /\ fetches = EmptyBag
  /\ mutations = EmptyBag
  /\ events = 0
  /\ lastPass = [cached |-> {}, failed |-> {}, issued |-> {}]
  /\ outcomes = {}
  /\ selectedBinding = << >>
  /\ showDetailsDialog = FALSE
  /\ bindingResponseContent = Empty
  /\ detailCalls = EmptyBag
  /\ rendered = [op |-> "none"]
  /\ serviceMappings = NewServiceMappings

MatchInit ==
  /\ Loaded
  /\ bindingTargetNamespaces \in MatchCaches
  /\ srvRecords \in SeqsUpTo(MatchRecords, MaxRecordList)
  /\ clusterBindings = srvRecords

\* the template renders the link of row i: hasLinkedClusterBinding
RenderLink(i) ==
  /\ rendered' = [ op |-> "link",
                   request |-> [ns |-> bindings[i].ns, name |-> bindings[i].name],
                   linked |-> getLinkedClusterBinding(bindings[i]) ]
  /\ UNCHANGED <<client, listCalls, recordCalls, fetches, mutations, server, events,
                 lastPass, outcomes, selectedBinding, showDetailsDialog,
                 bindingResponseContent, detailCalls, serviceMappings>>

MatchNext == \E i \in 1..Len(bindings) : RenderLink(i)

MatchSpec == MatchInit /\ [][MatchNext]_vars

\* the first record of the loaded record list in namespace ns, << >> when none
FirstIn(ns) ==
  IF \E j \in 1..Len(clusterBindings) : clusterBindings[j].ns = ns
  THEN << clusterBindings[CHOOSE j \in 1..Len(clusterBindings) :
                            /\ clusterBindings[j].ns = ns
                            /\ \A i \in 1..(j - 1) : clusterBindings[i].ns # ns] >>
  ELSE << >>

\* C11: matcher precedence: for a request whose key is cached with namespace t,
\* and a record list that holds a record of namespace t, the matcher returns the
\* first record of namespace t in list order, also when records of other
\* namespaces, the request's own included, come earlier.
MatcherPrecedence ==
  rendered.op = "link" =>
    LET k == BindingKey(rendered.request) IN
    (/\ k \in DOMAIN bindingTargetNamespaces
     /\ \E j \in 1..Len(clusterBindings) :
          <<clusterBindings[j].ns>> = bindingTargetNamespaces[k])
    => rendered.linked = FirstIn(bindingTargetNamespaces[k][1])

\* a row is rendered whose key is cached, a record of the request's own
\* namespace comes first in the list, and the link is the record of the cached
\* namespace
MatcherPrecedenceWitness ==
  /\ rendered.op = "link"
  /\ BindingKey(rendered.request) \in DOMAIN bindingTargetNamespaces
  /\ Len(clusterBindings) = 2
  /\ clusterBindings[1].ns = (IF rendered.request.ns = "" THEN "default"
                              ELSE rendered.request.ns)
  /\ <<clusterBindings[1].ns>> # bindingTargetNamespaces[BindingKey(rendered.request)]
  /\ rendered.linked = <<clusterBindings[2]>>

\* C12: matcher fallback: for a request whose key is not cached the matcher
\* returns the first record in list order of the request's own namespace,
\* 'default' when it has none, and nothing when no record has that namespace.
MatcherFallback ==
  rendered.op = "link" =>
    (BindingKey(rendered.request) \notin DOMAIN bindingTargetNamespaces
     => rendered.linked = FirstIn(IF rendered.request.ns = "" THEN "default"
                                  ELSE rendered.request.ns))

\* a row of a request without namespace is rendered whose key is not cached, and
\* the link is a record of namespace default that is not the first of the list
MatcherFallbackWitness ==
  /\ rendered.op = "link"
  /\ rendered.request.ns = ""
  /\ BindingKey(rendered.request) \notin DOMAIN bindingTargetNamespaces
  /\ Len(clusterBindings) = 2
  /\ clusterBindings[1].ns # "default"
  /\ rendered.linked = <<clusterBindings[2]>>

(***************************************************************************)
(* The condition projector: the health of a record as the cluster-bindings *)
(* page (ClusterBindingsComponent), the bindings page (BindingsComponent)  *)
(* and the binding-requests page (for a linked record) display it.         *)
(***************************************************************************)
\* longest condition list of the specification of the projector
MaxConditions == 2

ConditionTypes == {"Ready", "Healthy", "Synced"}

ConditionStatuses == {"True", "False", "Unknown", "true"}

Conditions == [type : ConditionTypes, status : ConditionStatuses]

\* ClusterBinding.status: present = FALSE stands for an absent status,
\* hasConditions = FALSE for an absent condition list, "" for an absent or empty
\* lastHeartbeatTime
NoStatus ==
  [present |-> FALSE, hasConditions |-> FALSE, conditions |-> << >>,
   lastHeartbeatTime |-> ""]

StatusOf(hasConditions, conditions, lastHeartbeatTime) ==
  [present |-> TRUE, hasConditions |-> hasConditions, conditions |-> conditions,
   lastHeartbeatTime |-> lastHeartbeatTime]

HeartbeatTimes == {"", "2025-01-01T00:00:00Z"}

HealthStatuses ==
  {NoStatus}
  \cup { StatusOf(FALSE, << >>, hb) : hb \in HeartbeatTimes }
  \cup { StatusOf(TRUE, conditions, hb) :
           conditions \in SeqsUpTo(Conditions, MaxConditions), hb \in HeartbeatTimes }

\* cb.status?.conditions?.find(c => c.type === type): << >> stands for undefined
RECURSIVE FindCondition(_, _)
FindCondition(conditions, type) ==
  IF conditions = << >> THEN << >>
  ELSE IF Head(conditions).type = type THEN <<Head(conditions)>>
  ELSE FindCondition(Tail(conditions), type)

\* cb.status?.conditions, << >> when the status or the list is absent
ConditionsOf(cb) ==
  IF cb.status.present /\ cb.status.hasConditions THEN cb.status.conditions ELSE << >>

\* cb.status?.lastHeartbeatTime, "" when it is absent
HeartbeatOf(cb) == IF cb.status.present THEN cb.status.lastHeartbeatTime ELSE ""

\* a projector without the Healthy tier
getHealthStatus_ReadyOnly(cb) ==
  LET readyCondition == FindCondition(ConditionsOf(cb), "Ready") IN
  IF readyCondition # << >>
  THEN IF readyCondition[1].status = "True" THEN "Ready" ELSE "Not Ready"
  ELSE IF HeartbeatOf(cb) # "" THEN "Connected" ELSE "Unknown"

\* ClusterBindingsComponent.getHealthStatus
getHealthStatus(cb) ==
  LET readyCondition == FindCondition(ConditionsOf(cb), "Ready")
      healthyCondition == FindCondition(ConditionsOf(cb), "Healthy") IN
  IF readyCondition # << >>
  THEN IF readyCondition[1].status = "True" THEN "Ready" ELSE "Not Ready"
  ELSE IF healthyCondition # << >>
  THEN IF healthyCondition[1].status = "True" THEN "Healthy" ELSE "Unhealthy"
  ELSE IF HeartbeatOf(cb) # "" THEN "Connected" ELSE "Unknown"

\* a class that does not look at the heartbeat
getHealthClass_NoHeartbeat(cb) ==
  LET readyCondition == FindCondition(ConditionsOf(cb), "Ready")
      healthyCondition == FindCondition(ConditionsOf(cb), "Healthy") IN
  IF readyCondition # << >>
  THEN IF readyCondition[1].status = "True" THEN "success" ELSE "error"
  ELSE IF healthyCondition # << >>
  THEN IF healthyCondition[1].status = "True" THEN "success" ELSE "error"
  ELSE "pending"

\* ClusterBindingsComponent.getHealthClass
getHealthClass(cb) ==
  LET readyCondition == FindCondition(ConditionsOf(cb), "Ready")
      healthyCondition == FindCondition(ConditionsOf(cb), "Healthy") IN
  IF readyCondition # << >>
  THEN IF readyCondition[1].status = "True" THEN "success" ELSE "error"
  ELSE IF healthyCondition # << >>
  THEN IF healthyCondition[1].status = "True" THEN "success" ELSE "error"
  ELSE IF HeartbeatOf(cb) # "" THEN "success" ELSE "pending"

\* ClusterBindingsComponent.getHealthIcon
getHealthIcon(cb) ==
  LET readyCondition == FindCondition(ConditionsOf(cb), "Ready")
      healthyCondition == FindCondition(ConditionsOf(cb), "Healthy") IN
  IF readyCondition # << >>
  THEN IF readyCondition[1].status = "True" THEN "connected" ELSE "disconnected"
  ELSE IF healthyCondition # << >>
  THEN IF healthyCondition[1].status = "True" THEN "connected" ELSE "disconnected"
  ELSE IF HeartbeatOf(cb) # "" THEN "connected" ELSE "hint"

\* BindingsComponent.getHealthStatus
BindingsComponent_getHealthStatus(cb) ==
  LET readyCondition == FindCondition(ConditionsOf(cb), "Ready")
      healthyCondition == FindCondition(ConditionsOf(cb), "Healthy") IN
  IF readyCondition # << >>
  THEN IF readyCondition[1].status = "True" THEN "Ready" ELSE "Not Ready"
  ELSE IF healthyCondition # << >>
  THEN IF healthyCondition[1].status = "True" THEN "Healthy" ELSE "Unhealthy"
  ELSE IF HeartbeatOf(cb) # "" THEN "Connected" ELSE "Unknown"

\* BindingsComponent.getHealthClass
BindingsComponent_getHealthClass(cb) ==
  LET readyCondition == FindCondition(ConditionsOf(cb), "Ready")
      healthyCondition == FindCondition(ConditionsOf(cb), "Healthy") IN
  IF readyCondition # << >>
  THEN IF readyCondition[1].status = "True" THEN "success" ELSE "error"
  ELSE IF healthyCondition # << >>
  THEN IF healthyCondition[1].status = "True" THEN "success" ELSE "error"
  ELSE IF HeartbeatOf(cb) # "" THEN "success" ELSE "pending"

\* BindingsComponent.getHealthIcon
BindingsComponent_getHealthIcon(cb) ==
  LET readyCondition == FindCondition(ConditionsOf(cb), "Ready")
      healthyCondition == FindCondition(ConditionsOf(cb), "Healthy") IN
  IF readyCondition # << >>
  THEN IF readyCondition[1].status = "True" THEN "connected" ELSE "disconnected"
  ELSE IF healthyCondition # << >>
  THEN IF healthyCondition[1].status = "True" THEN "connected" ELSE "disconnected"
  ELSE IF HeartbeatOf(cb) # "" THEN "connected" ELSE "hint"

\* BindingRequestsComponent.getLinkedBindingStatus
\* a status that answers from what it showed last instead of the signals
getLinkedBindingStatus_Remembered(request) ==
  IF rendered.op = "row" THEN "Unknown"
  ELSE IF getLinkedClusterBinding(request) = << >> THEN "Unknown"
  ELSE "Connected"

getLinkedBindingStatus(request) ==
  LET cb == getLinkedClusterBinding(request) IN
  IF cb = << >> THEN "Unknown"
  ELSE LET readyCondition == FindCondition(ConditionsOf(cb[1]), "Ready") IN
       IF readyCondition # << >>
       THEN IF readyCondition[1].status = "True" THEN "Ready" ELSE "Not Ready"
       ELSE IF HeartbeatOf(cb[1]) # "" THEN "Connected" ELSE "Unknown"

\* BindingRequestsComponent.getLinkedBindingClass
getLinkedBindingClass(request) ==
  LET cb == getLinkedClusterBinding(request) IN
  IF cb = << >> THEN "pending"
  ELSE LET readyCondition == FindCondition(ConditionsOf(cb[1]), "Ready") IN
       IF readyCondition # << >>
       THEN IF readyCondition[1].status = "True" THEN "success" ELSE "error"
       ELSE IF HeartbeatOf(cb[1]) # "" THEN "success" ELSE "pending"

\* BindingRequestsComponent.getLinkedBindingIcon
getLinkedBindingIcon(request) ==
  LET cb == getLinkedClusterBinding(request) IN
  IF cb = << >> THEN "hint"
  ELSE LET readyCondition == FindCondition(ConditionsOf(cb[1]), "Ready") IN
       IF readyCondition # << >>
       THEN IF readyCondition[1].status = "True" THEN "connected" ELSE "disconnected"
       ELSE IF HeartbeatOf(cb[1]) # "" THEN "connected" ELSE "hint"

\* the pages have loaded the one record of the backing store, which is in the
\* namespace of request default/a
HealthInit ==
  /\ Loaded
  /\ bindingTargetNamespaces = << >>
  /\ srvRecords \in { << [ns |-> "default", name |-> "rec1", status |-> st] >> :
                        st \in HealthStatuses }
  /\ clusterBindings = srvRecords

\* the cluster-bindings page renders the health of row j
RenderHealth(j) ==
  /\ rendered' = [ op |-> "health", cb |-> clusterBindings[j],
                   label |-> getHealthStatus(clusterBindings[j]),
                   class |-> getHealthClass(clusterBindings[j]),
                   icon |-> getHealthIcon(clusterBindings[j]) ]
  /\ UNCHANGED <<client, listCalls, recordCalls, fetches, mutations, server, events,
                 lastPass, outcomes, selectedBinding, showDetailsDialog,
                 bindingResponseContent, detailCalls, serviceMappings>>

\* the bindings page renders the health of row j
RenderBindingsHealth(j) ==
  /\ rendered' = [ op |-> "bindings-health", cb |-> clusterBindings[j],
                   label |-> BindingsComponent_getHealthStatus(clusterBindings[j]),
                   class |-> BindingsComponent_getHealthClass(clusterBindings[j]),
                   icon |-> BindingsComponent_getHealthIcon(clusterBindings[j]) ]
  /\ UNCHANGED <<client, listCalls, recordCalls, fetches, mutations, server, events,
                 lastPass, outcomes, selectedBinding, showDetailsDialog,
                 bindingResponseContent, detailCalls, serviceMappings>>

\* the binding-requests page renders the health of the record linked to row i
RenderLinked(i) ==
  /\ rendered' = [ op |-> "linked",
                   cb |-> getLinkedClusterBinding(bindings[i]),
                   label |-> getLinkedBindingStatus(bindings[i]),
                   class |-> getLinkedBindingClass(bindings[i]),
                   icon |-> getLinkedBindingIcon(bindings[i]) ]
  /\ UNCHANGED <<client, listCalls, recordCalls, fetches, mutations, server, events,
                 lastPass, outcomes, selectedBinding, showDetailsDialog,
                 bindingResponseContent, detailCalls, serviceMappings>>

HealthNext ==
  \/ \E j \in 1..Len(clusterBindings) : RenderHealth(j)
  \/ \E j \in 1..Len(clusterBindings) : RenderBindingsHealth(j)
  \/ \E i \in 1..Len(bindings) : RenderLinked(i)

HealthSpec == HealthInit /\ [][HealthNext]_vars

\* a page of records has rendered the health of a record
HealthRendered == rendered.op \in {"health", "bindings-health"}

\* the first condition of a type in the record's list, << >> when none
FirstOfType(cb, type) ==
  LET conditions == IF cb.status.present /\ cb.status.hasConditions
                    THEN cb.status.conditions ELSE << >> IN
  IF \E j \in 1..Len(conditions) : conditions[j].type = type
  THEN << conditions[CHOOSE j \in 1..Len(conditions) :
                       /\ conditions[j].type = type
                       /\ \A i \in 1..(j - 1) : conditions[i].type # type] >>
  ELSE << >>

Projection == <<rendered.label, rendered.class, rendered.icon>>

\* C13: projector precedence: with a Ready condition the projection is (Ready,
\* success, connected) when its status is exactly "True" and (Not Ready, error,
\* disconnected) otherwise, whatever the Healthy condition and the heartbeat are;
\* without a Ready condition and with a Healthy condition it is (Healthy,
\* success, connected) for "True" and (Unhealthy, error, disconnected) otherwise.
ProjectorPrecedence ==
  HealthRendered =>
    LET ready == FirstOfType(rendered.cb, "Ready")
        healthy == FirstOfType(rendered.cb, "Healthy") IN
    /\ ready # << >> =>
         Projection = IF ready[1].status = "True"
                      THEN <<"Ready", "success", "connected">>
                      ELSE <<"Not Ready", "error", "disconnected">>
    /\ (ready = << >> /\ healthy # << >>) =>
         Projection = IF healthy[1].status = "True"
                      THEN <<"Healthy", "success", "connected">>
                      ELSE <<"Unhealthy", "error", "disconnected">>

\* a record is rendered Unhealthy that has no Ready condition, a Healthy
\* condition that is not "True", and a heartbeat
ProjectorPrecedenceWitness ==
  /\ HealthRendered
  /\ FirstOfType(rendered.cb, "Ready") = << >>
  /\ FirstOfType(rendered.cb, "Healthy") # << >>
  /\ rendered.cb.status.lastHeartbeatTime # ""
  /\ Projection = <<"Unhealthy", "error", "disconnected">>

\* C14: projector fallback and totality: with neither a Ready nor a Healthy
\* condition (an empty or absent list, an absent status) the projection is
\* (Connected, success, connected) when the heartbeat is present and non-empty
\* and (Unknown, pending, hint) otherwise; every input has a projection.
ProjectorFallback ==
  HealthRendered =>
    /\ (/\ FirstOfType(rendered.cb, "Ready") = << >>
        /\ FirstOfType(rendered.cb, "Healthy") = << >>) =>
         Projection = IF rendered.cb.status.present
                         /\ rendered.cb.status.lastHeartbeatTime # ""
                      THEN <<"Connected", "success", "connected">>
                      ELSE <<"Unknown", "pending", "hint">>
    /\ Projection \in { <<"Ready", "success", "connected">>,
                        <<"Not Ready", "error", "disconnected">>,
                        <<"Healthy", "success", "connected">>,
                        <<"Unhealthy", "error", "disconnected">>,
                        <<"Connected", "success", "connected">>,
                        <<"Unknown", "pending", "hint">> }

\* a record without status is rendered Unknown
ProjectorFallbackWitness ==
  /\ HealthRendered
  /\ ~rendered.cb.status.present
  /\ Projection = <<"Unknown", "pending", "hint">>

\* C15: the three-tier fallback is applied identically: the label, class and
\* icon the binding-requests page computes for a linked record equal those the
\* cluster-bindings page computes for the same record.
HealthAppliedIdentically ==
  (rendered.op = "linked" /\ rendered.cb # << >>) =>
    Projection = << getHealthStatus(rendered.cb[1]), getHealthClass(rendered.cb[1]),
                    getHealthIcon(rendered.cb[1]) >>

(***************************************************************************)
(* The artifact decoder: the page is opened on one Succeeded request whose *)
(* artifact is one of a family of secrets; the resolve pass decodes it and *)
(* the details dialog shows it.                                            *)
(***************************************************************************)
\* the parts of a kubeconfig text with a namespace token: what precedes
\* 'namespace:', the whitespace that follows it, the token, and what follows
KubeconfigParts ==
  [ prefix : { << >>, <<"server:", " ", "https://host", "\n">> },
    ws : { << >>, <<" ">>, <<"\n", "\t", " ">> },
    token : { <<"t1">>, <<"team", "-", "1">> },
    suffix : { << >>, <<"\n", "namespace:", " ", "t2", "\n">> } ]

TextOf(parts) ==
  Txt(parts.prefix \o <<"namespace:">> \o parts.ws \o parts.token \o parts.suffix)

\* the binding response with the kubeconfig text of parts
ResponseOf(parts) == B64(Json(B64(TextOf(parts))))

\* 'namespace: ' + t1, the plain case
PlainParts == [prefix |-> << >>, ws |-> <<" ">>, token |-> <<"t1">>, suffix |-> << >>]

\* values that are no well-formed binding response
RawJsonValue == Json(B64(TextOf(PlainParts)))

RawTextValue == TextOf(PlainParts)

MalformedValues ==
  { RawJsonValue,                                 \* JSON stored without base64
    RawTextValue,                                 \* a kubeconfig stored as it is
    B64(Txt(<<"hello">>)),                        \* base64 of a text that is no JSON
    B64(Json(Empty)),                             \* JSON without kubeconfig field
    B64(Json(TextOf(PlainParts))),                \* kubeconfig field that is no base64
    B64(Json(B64(Txt(<<"server:", " ", "https://host">>)))) }  \* no namespace token

ArtifactKeys == {"binding-response", "response", "other"}

DecodeSecrets ==
  { SecretOf(<< <<"binding-response", ResponseOf(parts)>> >>) : parts \in KubeconfigParts }
  \cup { SecretOf(<< <<key, value>> >>) :
           key \in ArtifactKeys, value \in MalformedValues \cup {ResponseOf(PlainParts)} }
  \cup { SecretOf(<< <<"other", ResponseOf(PlainParts)>>,
                     <<"response", B64(Txt(<<"hello">>))>> >>),
         [found |-> TRUE, hasData |-> FALSE, data |-> << >>],   \* no data field
         SecretOf(<< >>),                                       \* data: {}
         NullSecret }

DecodeRefs == { Ref("s-a", ""), Ref("s-a", "response") }

DecodeInit ==
  /\ InitComponent
  /\ srvRequests \in
       { [id \in ReqIds |-> IF id.name = "a" THEN Present("Succeeded", ref) ELSE Absent] :
           ref \in DecodeRefs }
  /\ srvSecrets \in
       { [loc \in SecretLocs |-> IF loc[2] = "s-a" THEN secret ELSE NullSecret] :
           secret \in DecodeSecrets }
  /\ srvRecords = << >>

\* the getSecret call of the details dialog with what its callbacks close over
DetailCall(b) ==
  [ secretRef |-> b.ref, namespace |-> RequestNamespace(b), status |-> "issued",
    secret |-> NullSecret ]

\* openBindingDetails of row i, up to its subscribe
OpenBindingDetails(i) ==
  LET binding == bindings[i] IN
  /\ Counted
  /\ ~showDetailsDialog
  /\ selectedBinding' = <<binding>>
  /\ bindingResponseContent' = Empty
  /\ showDetailsDialog' = TRUE
  /\ detailCalls' = IF binding.ref.present THEN detailCalls (+) One(DetailCall(binding))
                    ELSE detailCalls
  /\ UNCHANGED <<client, listCalls, recordCalls, fetches, mutations, server, lastPass,
                 outcomes, rendered, serviceMappings>>

\* the backing store answers the getSecret call of the details dialog, or the
\* call fails
DetailsServed(d) ==
  /\ d.status = "issued"
  /\ \E secret \in getSecret(d.secretRef.name, d.namespace) :
       detailCalls' = (detailCalls (-) One(d))
                        (+) One([d EXCEPT !.status = "served", !.secret = secret])
  /\ UNCHANGED <<client, listCalls, recordCalls, fetches, mutations, server, events,
                 lastPass, outcomes, selectedBinding, showDetailsDialog,
                 bindingResponseContent, rendered, serviceMappings>>

\* a dialog that shows nothing when the value is no base64
DetailsContent_NoFallback(content, secretRef, secret) ==
  LET key == IF secretRef.key # "" THEN secretRef.key ELSE "response"
      encodedContent == Lookup(secret.data, key) IN
  IF secret.found /\ secret.hasData /\ Truthy(encodedContent) /\ Atob(encodedContent).ok
  THEN Atob(encodedContent).v ELSE content

\* the next callback of openBindingDetails: bindingResponseContent after it
DetailsContent(content, secretRef, secret) ==
  IF ~(secret.found /\ secret.hasData) THEN content
  ELSE LET key == IF secretRef.key # "" THEN secretRef.key ELSE "response"
           encodedContent == Lookup(secret.data, key) IN
       IF ~Truthy(encodedContent) THEN content
       ELSE LET decodedContent == Atob(encodedContent) IN
            IF decodedContent.ok THEN decodedContent.v ELSE encodedContent

DetailsNext(d) ==
  /\ d.status = "served"
  /\ bindingResponseContent' = DetailsContent(bindingResponseContent, d.secretRef, d.secret)
  /\ detailCalls' = detailCalls (-) One(d)
  /\ UNCHANGED <<client, listCalls, recordCalls, fetches, mutations, server, events,
                 lastPass, outcomes, selectedBinding, showDetailsDialog, rendered, serviceMappings>>

\* BindingsComponent.downloadBindingFile, the next callback of its getSecret
\* call: the alert it shows ("" for none), bindingResponseContent after it
\* (Empty for '') and the text handed to performDownload (Empty for none)
downloadBindingFile(secretRef, secret) ==
  IF ~(secret.found /\ secret.hasData)
  THEN [alert |-> "Secret has no data", content |-> Empty, downloaded |-> Empty]
  ELSE LET key == IF secretRef.key # "" THEN secretRef.key ELSE "response"
           atKey == Lookup(secret.data, key)
           encodedContent == IF ~Truthy(atKey) /\ Len(secret.data) > 0
                             THEN secret.data[1][2] ELSE atKey IN
       IF ~Truthy(encodedContent)
       THEN [alert |-> "Secret key not found in secret", content |-> Empty,
             downloaded |-> Empty]
       ELSE LET decodedContent == Atob(encodedContent) IN
            IF decodedContent.ok
            THEN [alert |-> "", content |-> decodedContent.v,
                  downloaded |-> decodedContent.v]
            ELSE [alert |-> "", content |-> encodedContent,
                  downloaded |-> encodedContent]

\* the bindings page downloads the binding file of a request it has selected
\* and has no content for yet: the getSecret call and its next callback
DownloadBindingFile(id) ==
  /\ srvRequests[id].present /\ srvRequests[id].ref.present
  /\ \E secret \in getSecret(srvRequests[id].ref.name, RequestNamespace(id)) :
       rendered' = [ op |-> "download", secretRef |-> srvRequests[id].ref,
                     secret |-> secret,
                     result |-> downloadBindingFile(srvRequests[id].ref, secret) ]
  /\ UNCHANGED <<client, listCalls, recordCalls, fetches, mutations, server, events,
                 lastPass, outcomes, selectedBinding, showDetailsDialog,
                 bindingResponseContent, detailCalls, serviceMappings>>

\* loadBindings is called until the list has arrived
LoadUntilListed ==
  /\ bindings = << >>
  /\ listCalls = EmptyBag
  /\ LoadBindings

DecodeNext ==
  \/ LoadUntilListed
  \/ \E list \in BagToSet(listCalls) : BindingsNext(list)
  \/ \E f \in BagToSet(fetches) : SecretServed(f)
  \/ \E f \in BagToSet(fetches) : SecretDelivered(f)
  \/ \E i \in 1..Len(bindings) : OpenBindingDetails(i)
  \/ \E d \in BagToSet(detailCalls) : DetailsServed(d)
  \/ \E d \in BagToSet(detailCalls) : DetailsNext(d)
  \/ \E id \in ReqIds : DownloadBindingFile(id)

DecodeSpec == DecodeInit /\ [][DecodeNext]_vars

(***************************************************************************)
(* Claims about the decoder                                                *)
(***************************************************************************)
\* the value a getSecret call of the resolve pass asked for: the one stored
\* under the key of the request's reference, under 'binding-response' when
\* the reference names no key
RequestedValue(f) ==
  Lookup(f.secret.data,
         IF f.secretRef.key # "" THEN f.secretRef.key ELSE "binding-response")

\* C16: when the value the resolve pass asked for is base64 of a JSON object
\* whose kubeconfig field is base64 of a text that contains 'namespace:',
\* optional whitespace and a token, the callback writes to the cache, under
\* the request's key, exactly the first run of non-whitespace symbols after
\* the first 'namespace:': the token, with no whitespace around it and
\* nothing of what follows it.
NamespaceTokenRecovered ==
  [][\A f \in Completed : \A parts \in KubeconfigParts :
       RequestedValue(f) = ResponseOf(parts)
       => /\ f.bindingKey \in DOMAIN bindingTargetNamespaces'
          /\ bindingTargetNamespaces'[f.bindingKey] = parts.token]_vars

\* a token of several symbols, after a prefix, a line break and a tab, and
\* before a second 'namespace:', has been recovered
NamespaceTokenRecoveredWitness ==
  \E id \in ReqIds :
    /\ srvRequests[id].present
    /\ \E parts \in KubeconfigParts :
         /\ parts.prefix # << >> /\ Len(parts.ws) = 3 /\ Len(parts.token) = 3
         /\ parts.suffix # << >>
         /\ srvSecrets[<<RequestNamespace(id), SecretNameOf(id)>>] = SecretOf(<< <<"binding-response", ResponseOf(parts)>> >>)
         /\ BindingKey(id) \in DOMAIN bindingTargetNamespaces
         /\ bindingTargetNamespaces[BindingKey(id)] = parts.token

FirstValue(secret) == IF secret.data = << >> THEN Empty ELSE secret.data[1][2]

\* C18: key fallback. When the secret's data map is non-empty but holds no
\* value under the requested key, the resolver decodes the value of the first
\* key instead: a request whose well-formed binding response is stored under
\* another key than the referenced one has its namespace written to the cache.
KeyFallback ==
  [][\A f \in Completed : \A parts \in KubeconfigParts :
       (/\ f.secret.found /\ f.secret.hasData /\ f.secret.data # << >>
        /\ RequestedValue(f) = Empty
        /\ FirstValue(f.secret) = ResponseOf(parts))
       => /\ f.bindingKey \in DOMAIN bindingTargetNamespaces'
          /\ bindingTargetNamespaces'[f.bindingKey] = parts.token]_vars

\* C19: best-effort outer decode. When the requested value is no base64 but
\* is itself a well-formed JSON document with an embedded namespace, the
\* resolver runs the remaining steps on the raw value, and the namespace is
\* written to the cache.
RawValueDecoded ==
  [][\A f \in Completed : \A parts \in KubeconfigParts :
       RequestedValue(f) = Json(B64(TextOf(parts)))
       => /\ f.bindingKey \in DOMAIN bindingTargetNamespaces'
          /\ bindingTargetNamespaces'[f.bindingKey] = parts.token]_vars

\* the getSecret calls of the details dialog whose next callback runs in this
\* step, and the value such a callback asks for
DetailsCompleted ==
  { d \in BagToSet(detailCalls) :
      d.status = "served" /\ CopiesIn(d, detailCalls') < CopiesIn(d, detailCalls) }

DisplayedValue(d) ==
  Lookup(d.secret.data, IF d.secretRef.key # "" THEN d.secretRef.key ELSE "response")

\* the best available text of a value: what it encodes when it is base64,
\* the value itself when it is not
BestText(value) == IF value[1] = "b64" THEN Tail(value) ELSE value

\* C20: malformed input. For a value that is no base64, that is no JSON after
\* decoding, or whose JSON has no (decodable, namespace-bearing) kubeconfig
\* field: the callback of the resolve pass completes with no namespace and
\* leaves the cache as it was, and the callback of the details dialog
\* completes with bindingResponseContent set to the best available text (the
\* raw value when the outer base64 decode fails) and the cache as it was.
MalformedNeverThrows ==
  [][/\ \A f \in Completed :
          RequestedValue(f) \in MalformedValues
          => /\ bindingTargetNamespaces' = bindingTargetNamespaces
             /\ [key |-> f.bindingKey, ns |-> Empty] \in outcomes'
     /\ \A d \in DetailsCompleted :
          DisplayedValue(d) \in MalformedValues
          => /\ bindingResponseContent' = BestText(DisplayedValue(d))
             /\ bindingTargetNamespaces' = bindingTargetNamespaces]_vars

\* a value stored as raw JSON has gone through both callbacks: the dialog
\* shows the raw value, the resolve pass recovered nothing and cached nothing
MalformedNeverThrowsWitness ==
  \E id \in ReqIds :
    /\ srvRequests[id].present /\ srvRequests[id].ref.present
    /\ srvRequests[id].ref.key = "response"
    /\ srvSecrets[<<RequestNamespace(id), SecretNameOf(id)>>]
         = SecretOf(<< <<"response", RawJsonValue>> >>)
    /\ showDetailsDialog /\ detailCalls = EmptyBag
    /\ bindingResponseContent = RawJsonValue
    /\ [key |-> BindingKey(id), ns |-> Empty] \in outcomes
    /\ fetches = EmptyBag
    /\ BindingKey(id) \notin DOMAIN bindingTargetNamespaces

\* C21: a secret without data field and a secret whose data is the empty map
\* both end in the no-data outcome ('Secret has no data'), not in the
\* key-not-found outcome, with no content and nothing downloaded; the
\* resolver writes nothing to the cache for either.
NoDataOutcome ==
  /\ (rendered.op = "download" /\ rendered.secret.found
      /\ (~rendered.secret.hasData \/ rendered.secret.data = << >>))
     => rendered.result = [alert |-> "Secret has no data", content |-> Empty,
                           downloaded |-> Empty]
  /\ \A id \in ReqIds :
       LET secret == srvSecrets[<<RequestNamespace(id), SecretNameOf(id)>>] IN
       (secret.found /\ (~secret.hasData \/ secret.data = << >>))
       => BindingKey(id) \notin DOMAIN bindingTargetNamespaces

(***************************************************************************)
(* BindingsService: each operation is the pipeline                         *)
(*   getGraphQLConfig | switchMap(fetch.then(res.json)) | map | catchError *)
(* applied to what the transport answers.                                  *)
(***************************************************************************)
MaxItems == 2

ListOperations ==
  { "listBindings", "listNamespaces", "listClusterBindings", "listAPIBindings",
    "listAPIServiceExportRequests" }

MutationOperations ==
  { "createBinding", "deleteBinding", "deleteClusterBinding",
    "createAPIServiceExportRequest", "deleteAPIServiceExportRequest" }

\* the mutations whose map tests response.errors first
ErrorsChecked == MutationOperations \ {"deleteBinding"}

ServiceOperations == ListOperations \cup {"getSecret"} \cup MutationOperations

\* the value at the path the operation's map reads: absent when the optional
\* chain ends in undefined or null, else the value (a list of items, the
\* secret, the object a mutation returns), each a sequence
Items == {"item1", "item2"}

NoPayload == [present |-> FALSE, value |-> << >>]

PayloadsOf(operation) ==
  {NoPayload}
  \cup { [present |-> TRUE, value |-> v] :
           v \in IF operation \in ListOperations THEN SeqsUpTo(Items, MaxItems)
                 ELSE IF operation = "getSecret" THEN {<<"secret">>}
                 ELSE {<<"object">>} }

\* what the transport answers: the fetch rejects, the body is no JSON, the
\* body is the JSON value null, or the body is an object
NoBody == [isNull |-> TRUE, errors |-> FALSE, payload |-> NoPayload]

ResponsesOf(operation) ==
  { [transport |-> t, body |-> NoBody] : t \in {"rejected", "notjson"} }
  \cup { [transport |-> "ok", body |-> NoBody] }
  \cup { [transport |-> "ok",
          body |-> [isNull |-> FALSE, errors |-> e, payload |-> payload]] :
           e \in BOOLEAN, payload \in PayloadsOf(operation) }

\* from(fetch(...).then(res => res.json())): the body, or an error notification
Transport(response) ==
  IF response.transport = "ok" THEN [kind |-> "next", value |-> response.body]
  ELSE [kind |-> "error", value |-> response.transport]

\* the map of the operation: reading .data (or .errors) of null throws
MapStage(operation, n) ==
  IF n.kind = "error" THEN n
  ELSE IF n.value.isNull THEN [kind |-> "error", value |-> "TypeError"]
  ELSE LET body == n.value IN
       IF operation \in MutationOperations
       THEN [kind |-> "next",
             value |-> IF operation \in ErrorsChecked /\ body.errors THEN FALSE
                       ELSE body.payload.present]
       ELSE [kind |-> "next",
             value |-> IF body.payload.present THEN body.payload.value ELSE << >>]

\* what catchError substitutes: [] for a list, null (<< >>) for getSecret,
\* false for a mutation
Fallback(operation) == IF operation \in MutationOperations THEN FALSE ELSE << >>

\* a pipeline without catchError
CatchError_Rethrow(operation, n) == n

CatchError(operation, n) ==
  IF n.kind = "error" THEN [kind |-> "next", value |-> Fallback(operation)] ELSE n

\* the notification the subscriber of the operation gets
Service(operation, response) ==
  CatchError(operation, MapStage(operation, Transport(response)))

ServiceInit ==
  /\ srvRequests = [id \in ReqIds |-> Absent]
  /\ srvSecrets = [loc \in SecretLocs |-> NullSecret]
  /\ srvRecords = << >>
  /\ bindings = << >>
  /\ clusterBindings = << >>
  /\ loading = FALSE
  /\ bindingTargetNamespaces = << >>
  /\ listCalls = EmptyBag
  /\ recordCalls = EmptyBag
  /\ fetches = EmptyBag
  /\ mutations = EmptyBag
  /\ events = 0
  /\ lastPass = [cached |-> {}, failed |-> {}, issued |-> {}]
  /\ outcomes = {}
  /\ selectedBinding = << >>
  /\ showDetailsDialog = FALSE
  /\ bindingResponseContent = Empty
  /\ detailCalls = EmptyBag
  /\ serviceMappings = NewServiceMappings
  /\ \E operation \in ServiceOperations : \E response \in ResponsesOf(operation) :
       rendered = [op |-> "call", operation |-> operation, response |-> response]

\* the transport answers an outstanding call and the subscriber is notified
Notify ==
  /\ rendered.op = "call"
  /\ rendered' = [ op |-> "notified", operation |-> rendered.operation,
                   response |-> rendered.response,
                   notification |-> Service(rendered.operation, rendered.response) ]
  /\ UNCHANGED <<client, listCalls, recordCalls, fetches, mutations, server, events,
                 lastPass, outcomes, selectedBinding, showDetailsDialog,
                 bindingResponseContent, detailCalls, serviceMappings>>

ServiceNext == Notify

ServiceSpec == ServiceInit /\ [][ServiceNext]_vars

\* a response that failed or is malformed: the transport failed, or the body
\* is null or lacks the value the operation reads
FailedResponse(response) ==
  \/ response.transport # "ok"
  \/ response.body.isNull
  \/ ~response.body.payload.present

\* C22: transport failures are absorbed. Whatever the transport answers, the
\* subscriber of every service operation gets a next notification, never an
\* error; for a failed or malformed response a list operation delivers the
\* empty list, getSecret delivers null and a create or delete delivers false.
FailuresAbsorbed ==
  rendered.op = "notified"
  => /\ rendered.notification.kind = "next"
     /\ FailedResponse(rendered.response)
        => rendered.notification.value = Fallback(rendered.operation)

\* getSecret has delivered null after a rejected fetch
FailuresAbsorbedWitness ==
  /\ rendered.op = "notified"
  /\ rendered.operation = "getSecret"
  /\ rendered.response.transport = "rejected"
  /\ rendered.notification = [kind |-> "next", value |-> << >>]

\* C23: best-effort nested decode. When the kubeconfig field of the JSON
\* document is no base64 but unencoded text that contains 'namespace:' and a
\* token, the raw text is scanned and the token is written to the cache.
NestedRawDecoded ==
  [][\A f \in Completed : \A parts \in KubeconfigParts :
       RequestedValue(f) = B64(Json(TextOf(parts)))
       => /\ f.bindingKey \in DOMAIN bindingTargetNamespaces'
          /\ bindingTargetNamespaces'[f.bindingKey] = parts.token]_vars

(***************************************************************************)
(* The resolve pass on request lists of any shape: the page has called     *)
(* loadBindings, the list that will arrive is one of a family of lists,    *)
(* and the cache holds what earlier passes have left.                      *)
(***************************************************************************)
MaxRequestList == 2

\* requests that yield the key default/a, with and without namespace
PolicyRequests ==
  [ ns : {"", "default"}, name : {"a"}, phase : {"Succeeded", "Pending"},
    ref : {NoRef, Ref("s-a", ""), Ref("s-a", "response")} ]

PolicyCaches == { << >>, [k \in {<<"default", "a">>} |-> <<"t1">>] }

PolicySecrets ==
  { SecretOf(<< <<"binding-response", ResponseOf(PlainParts)>> >>),
    SecretOf(<< <<"response", ResponseOf(PlainParts)>> >>) }

PolicyInit ==
  /\ srvRequests = [id \in ReqIds |-> Absent]
  /\ srvSecrets \in
       { [loc \in SecretLocs |-> IF loc[2] = "s-a" THEN secret ELSE NullSecret] :
           secret \in PolicySecrets }
  /\ srvRecords = << >>
  /\ bindings = << >>
  /\ clusterBindings = << >>
  /\ loading = TRUE
  /\ bindingTargetNamespaces \in PolicyCaches
  /\ listCalls \in { One(list) :
                       list \in SeqsUpTo(PolicyRequests, MaxRequestList) \ {<< >>} }
  /\ recordCalls = EmptyBag
  /\ fetches = EmptyBag
  /\ mutations = EmptyBag
  /\ events = 0
  /\ lastPass = [cached |-> {}, failed |-> {}, issued |-> {}]
  /\ outcomes = {}
  /\ selectedBinding = << >>
  /\ showDetailsDialog = FALSE
  /\ bindingResponseContent = Empty
  /\ detailCalls = EmptyBag
  /\ rendered = [op |-> "none"]
  /\ serviceMappings = NewServiceMappings

PolicyNext ==
  \/ \E list \in BagToSet(listCalls) : BindingsNext(list)
  \/ \E f \in BagToSet(fetches) : SecretServed(f)
  \/ \E f \in BagToSet(fetches) : SecretDelivered(f)

PolicySpec == PolicyInit /\ [][PolicyNext]_vars

\* C24: candidate policy. A resolve pass issues a fetch for an entry of the
\* list if and only if its phase is Succeeded, it has a reference and its key
\* is not in the cache when the pass runs; the fetch is addressed to the
\* reference's name in the request's namespace, 'default' when it has none;
\* and the callback looks the value up under the reference's key, under
\* 'binding-response' when the reference has no key.
CandidatePolicy ==
  [][/\ PassRuns =>
          \A j \in 1..Len(bindings') :
            LET b == bindings'[j]
                key == <<IF b.ns = "" THEN "default" ELSE b.ns, b.name>> IN
            (\E f \in Issued : f.binding = b)
            <=> (/\ b.phase = "Succeeded" /\ b.ref.present
                 /\ key \notin DOMAIN bindingTargetNamespaces)
     /\ \A f \in Issued :
          /\ f.secretRef = f.binding.ref
          /\ f.namespace = IF f.binding.ns = "" THEN "default" ELSE f.binding.ns
          /\ f.bindingKey = <<f.namespace, f.binding.name>>
     /\ \A f \in Completed :
          LET value == Lookup(f.secret.data,
                              IF f.secretRef.key = "" THEN "binding-response"
                              ELSE f.secretRef.key) IN
          /\ value = Empty => bindingTargetNamespaces' = bindingTargetNamespaces
          /\ value = ResponseOf(PlainParts)
             => /\ f.bindingKey \in DOMAIN bindingTargetNamespaces'
                /\ bindingTargetNamespaces'[f.bindingKey] = <<"t1">>]_vars

\* a pass over a list with a candidate and a request that is none has issued
\* one fetch, and its value, looked up under the reference's key, is cached
CandidatePolicyWitness ==
  /\ Len(bindings) = 2
  /\ bindings[1].phase = "Pending"
  /\ bindings[2].phase = "Succeeded" /\ bindings[2].ref = Ref("s-a", "response")
  /\ bindings[2].ns = ""
  /\ lastPass.issued = {<<"default", "a">>}
  /\ fetches = EmptyBag
  /\ <<"default", "a">> \in DOMAIN bindingTargetNamespaces
  /\ [key |-> <<"default", "a">>, ns |-> <<"t1">>] \in outcomes

\* C25: within one resolve pass at most one fetch is issued per key, also for
\* a list in which two entries yield the same key (a repeated request, or an
\* entry without namespace and one in namespace 'default' of the same name).
OneFetchPerKey ==
  [][PassRuns =>
       /\ \A f \in Issued : CopiesIn(f, fetches') - CopiesIn(f, fetches) <= 1
       /\ \A f, g \in Issued : f.bindingKey = g.bindingKey => f = g]_vars

\* C26: when the cache holds a namespace for the request and no record of
\* the list has that namespace, the matcher returns nothing, also when a
\* record of the request's own namespace exists; whenever it returns a record
\* for a request with a cache entry, the record is of the cached namespace.
NoFallbackWhenCached ==
  rendered.op = "link" =>
    LET k == <<IF rendered.request.ns = "" THEN "default" ELSE rendered.request.ns,
               rendered.request.name>> IN
    k \in DOMAIN bindingTargetNamespaces
    => /\ (\A j \in 1..Len(clusterBindings) :
             <<clusterBindings[j].ns>> # bindingTargetNamespaces[k])
          => rendered.linked = << >>
       /\ rendered.linked # << >>
          => <<rendered.linked[1].ns>> = bindingTargetNamespaces[k]

\* a row is rendered whose key is cached, no record has the cached namespace,
\* a record of the request's own namespace exists, and there is no link
NoFallbackWhenCachedWitness ==
  /\ rendered.op = "link"
  /\ LET own == IF rendered.request.ns = "" THEN "default" ELSE rendered.request.ns
         k == <<own, rendered.request.name>> IN
     /\ k \in DOMAIN bindingTargetNamespaces
     /\ bindingTargetNamespaces[k] # <<own>>
     /\ \A j \in 1..Len(clusterBindings) :
          <<clusterBindings[j].ns>> # bindingTargetNamespaces[k]
     /\ \E j \in 1..Len(clusterBindings) : clusterBindings[j].ns = own
  /\ rendered.linked = << >>

(***************************************************************************)
(* The rows of the requests page: the template calls the matcher and the   *)
(* functions derived from it for a row, while the record list is reloaded. *)
(***************************************************************************)
hasLinkedClusterBinding(request) == getLinkedClusterBinding(request) # << >>

\* getLinkedNamespace: << >> stands for undefined
getLinkedNamespace(request) ==
  LET requestNamespace == RequestNamespace(request)
      bindingKey == <<requestNamespace, request.name>> IN
  IF bindingKey \in DOMAIN bindingTargetNamespaces
  THEN bindingTargetNamespaces[bindingKey] ELSE << >>

RowRecords ==
  [ ns : {"t1", "default"}, name : {"rec1"},
    status : { NoStatus,
               StatusOf(TRUE, << [type |-> "Ready", status |-> "True"] >>, "") } ]

RowInit ==
  /\ Loaded
  /\ bindingTargetNamespaces \in MatchCaches
  /\ srvRecords \in SeqsUpTo(RowRecords, MaxRecordList)
  /\ clusterBindings = srvRecords

\* the template evaluates row i; the record keeps the signals the row was
\* evaluated on
RenderRow(i) ==
  /\ rendered' = [ op |-> "row",
                   signals |-> <<bindingTargetNamespaces, clusterBindings>>,
                   request |-> bindings[i],
                   linked |-> getLinkedClusterBinding(bindings[i]),
                   has |-> hasLinkedClusterBinding(bindings[i]),
                   namespace |-> getLinkedNamespace(bindings[i]),
                   status |-> getLinkedBindingStatus(bindings[i]) ]
  /\ UNCHANGED <<client, listCalls, recordCalls, fetches, mutations, server, events,
                 lastPass, outcomes, selectedBinding, showDetailsDialog,
                 bindingResponseContent, detailCalls, serviceMappings>>

RowNext ==
  \/ \E i \in 1..Len(bindings) : RenderRow(i)
  \/ LoadClusterBindings
  \/ \E list \in BagToSet(recordCalls) : ClusterBindingsNext(list)

RowSpec == RowInit /\ [][RowNext]_vars

\* the template evaluates a row in this step
RowRendered == rendered'.op = "row" /\ rendered' # rendered

Permuted(cb) ==
  LET conditions == cb.status.conditions
      n == Len(conditions) IN
  { [j \in 1..n |-> conditions[p[j]]] :
      p \in { q \in [1..n -> 1..n] : \A i, j \in 1..n : q[i] = q[j] => i = j } }

\* C28: the health projection does not depend on the order of the condition
\* list: for the record rendered and every permutation of its conditions,
\* getHealthStatus, getHealthClass and getHealthIcon return the same label,
\* class and icon, also when the list holds several conditions of type Ready
\* or of type Healthy with different statuses.
ConditionOrderIrrelevant ==
  rendered.op = "health" =>
    \A conditions \in Permuted(rendered.cb) :
      LET cb == [rendered.cb EXCEPT !.status.conditions = conditions] IN
      <<getHealthStatus(cb), getHealthClass(cb), getHealthIcon(cb)>> = Projection

\* the listBindings call whose callback runs in this step delivers list
Delivers(list) ==
  list \in BagToSet(listCalls) /\ CopiesIn(list, listCalls') < CopiesIn(list, listCalls)

\* C29: a reload of the request list that fails delivers the empty list: the
\* displayed list becomes empty, the loading flag is cleared, the resolve pass
\* issues no fetch, and the cache and the record list stay as they are. When
\* a later reload delivers the requests again, no fetch is issued for a
\* request whose key is cached and the cache keeps its entry, so its link is
\* there without a new fetch.
FailedReloadKeepsCache ==
  [][/\ Delivers(<< >>)
        => /\ bindings' = << >> /\ loading' = FALSE
           /\ Issued = {}
           /\ bindingTargetNamespaces' = bindingTargetNamespaces
           /\ clusterBindings' = clusterBindings
     /\ \A list \in BagToSet(listCalls) :
          Delivers(list)
          => \A j \in 1..Len(list) :
               LET key == <<IF list[j].ns = "" THEN "default" ELSE list[j].ns,
                            list[j].name>> IN
               key \in DOMAIN bindingTargetNamespaces
               => /\ \A f \in Issued : f.bindingKey # key
                  /\ key \in DOMAIN bindingTargetNamespaces'
                  /\ bindingTargetNamespaces'[key] = bindingTargetNamespaces[key]]_vars

\* a reload has failed while the store holds a request whose key is cached:
\* the page shows no request and is not loading, the cache still has the key
FailedReloadKeepsCacheWitness ==
  /\ bindings = << >> /\ ~loading
  /\ listCalls = EmptyBag /\ fetches = EmptyBag
  /\ \E id \in ReqIds :
       /\ srvRequests[id].present
       /\ <<IF id.ns = "" THEN "default" ELSE id.ns, id.name>>
            \in DOMAIN bindingTargetNamespaces

(***************************************************************************)
(* ServiceMappingsComponent: the records are loaded, and each load starts  *)
(* a fan-out of listAPIServiceExportRequests calls, one per namespace.     *)
(***************************************************************************)
FanoutRecords == [ns : {"t1", "default"}, name : {"rec1"}]

\* the export requests the backing store holds in a namespace
StoredExportRequests(ns) == IF ns = "t1" THEN <<"e1">> ELSE <<"e2", "e3">>

\* what a listAPIServiceExportRequests call delivers: the stored requests, or
\* [] when the call fails
listAPIServiceExportRequests(ns) == { StoredExportRequests(ns), << >> }

\* getClusterBindingNamespaces: the namespaces of the records, each once, in
\* the order of their first record
RECURSIVE UniqueNamespaces(_, _)
UniqueNamespaces(records, seen) ==
  IF records = << >> THEN << >>
  ELSE LET ns == Head(records).ns IN
       IF ns = "" \/ ns \in seen THEN UniqueNamespaces(Tail(records), seen)
       ELSE <<ns>> \o UniqueNamespaces(Tail(records), seen \cup {ns})

getClusterBindingNamespaces(records) == UniqueNamespaces(records, {})

\* the closure of a loadAllExportRequests call; pending and results are
\* bookkeeping: the namespaces whose call is outstanding, and what the calls
\* that completed delivered
ExportCall(namespaces) ==
  [ namespaces |-> namespaces, allRequests |-> << >>, completedCount |-> 0,
    pending |-> { namespaces[j] : j \in 1..Len(namespaces) }, results |-> {} ]

\* loadAllExportRequests up to the end of its forEach
loadAllExportRequests(sm) ==
  LET namespaces == getClusterBindingNamespaces(sm.clusterBindings)
      c == Len(sm.calls) + 1 IN
  IF Len(namespaces) = 0
  THEN [sm EXCEPT !.exportRequests = << >>,
                  !.calls = Append(@, ExportCall(namespaces)),
                  !.published = Append(@, [call |-> c, list |-> << >>])]
  ELSE [sm EXCEPT !.loadingExportRequests = TRUE,
                  !.calls = Append(@, ExportCall(namespaces))]

\* the next callback of call c's listAPIServiceExportRequests(ns)
exportRequestsNext(sm, c, ns, requests) ==
  LET call == sm.calls[c]
      allRequests == call.allRequests \o requests
      completedCount == call.completedCount + 1
      closed == [sm EXCEPT !.calls[c] = [call EXCEPT !.allRequests = allRequests,
                                                     !.completedCount = completedCount,
                                                     !.pending = @ \ {ns},
                                                     !.results = @ \cup {<<ns, requests>>}]]
  IN IF completedCount = Len(call.namespaces)
     THEN [closed EXCEPT !.exportRequests = allRequests,
                         !.loadingExportRequests = FALSE,
                         !.published = Append(@, [call |-> c, list |-> allRequests])]
     ELSE closed

FanoutInit ==
  /\ InitComponent
  /\ srvRequests = [id \in ReqIds |-> Absent]
  /\ srvSecrets = [loc \in SecretLocs |-> NullSecret]
  /\ srvRecords \in SeqsUpTo(FanoutRecords, MaxRecordList)

\* the next callback of loadClusterBindings
MappingsClusterBindingsNext(list) ==
  /\ recordCalls' = recordCalls (-) One(list)
  /\ serviceMappings' =
       loadAllExportRequests([serviceMappings EXCEPT !.clusterBindings = list])
  /\ UNCHANGED <<client, listCalls, fetches, mutations, server, events, lastPass,
                 outcomes, selectedBinding, showDetailsDialog, bindingResponseContent,
                 detailCalls, rendered>>

\* a listAPIServiceExportRequests call of fan-out c is answered and its
\* callback runs
ExportRequestsNext(c, ns) ==
  /\ ns \in serviceMappings.calls[c].pending
  /\ \E requests \in listAPIServiceExportRequests(ns) :
       serviceMappings' = exportRequestsNext(serviceMappings, c, ns, requests)
  /\ UNCHANGED <<client, listCalls, recordCalls, fetches, mutations, server, events,
                 lastPass, outcomes, selectedBinding, showDetailsDialog,
                 bindingResponseContent, detailCalls, rendered>>

FanoutNext ==
  \/ LoadClusterBindings
  \/ \E list \in BagToSet(recordCalls) : MappingsClusterBindingsNext(list)
  \/ \E c \in 1..Len(serviceMappings.calls) :
       \E ns \in serviceMappings.calls[c].pending : ExportRequestsNext(c, ns)

FanoutSpec == FanoutInit /\ [][FanoutNext]_vars

\* the lists fan-out c has published
PublishedBy(c) ==
  { i \in 1..Len(serviceMappings.published) : serviceMappings.published[i].call = c }

\* the items of a list
ItemsOf(list) == { list[j] : j \in 1..Len(list) }

\* C30: a loadAllExportRequests call over n >= 1 namespaces publishes
\* exportRequests exactly once, after all n calls have been answered, with
\* the union of what they delivered; and when calls overlap, the list that is
\* published in the end, when all calls are answered, is the list of the call
\* that started last, and loadingExportRequests is cleared.
FanOut ==
  LET calls == serviceMappings.calls IN
  /\ \A c \in 1..Len(calls) :
       Len(calls[c].namespaces) >= 1
       => /\ Cardinality(PublishedBy(c)) = IF calls[c].pending = {} THEN 1 ELSE 0
          /\ \A i \in PublishedBy(c) :
               ItemsOf(serviceMappings.published[i].list)
                 = UNION { ItemsOf(r[2]) : r \in calls[c].results }
  /\ (/\ Len(calls) >= 1
      /\ \A c \in 1..Len(calls) :
           Len(calls[c].namespaces) >= 1 /\ calls[c].pending = {})
     => /\ serviceMappings.exportRequests = calls[Len(calls)].allRequests
        /\ ~serviceMappings.loadingExportRequests

====
